---- MODULE Spec2Model ----
(***************************************************************************)
(* Model of the rule engine of LAB3_RuleBasedSystem.py: the operator       *)
(* registry OPS, evaluate_condition, rule_matches and run_rules, and the   *)
(* reference rule table SCHOLARSHIP_RULES.                                 *)
(*                                                                         *)
(* Python values are tagged records [t, n, s]:                             *)
(*   t = "num"  a number, n = the number in hundredths (3.7 is 370, 80 is  *)
(*              8000): exact for decimal literals of at most two digits;   *)
(*   t = "str"  a string s;                                                *)
(*   t = "null" None;                                                      *)
(*   t = "list" the one-element list [n/100] (unhashable).                 *)
(* A dict is a function from its keys; d.get(k, default) is Get.           *)
(* A call that can raise returns "T", "F" or "E" (an exception escaped).   *)
(***************************************************************************)
EXTENDS Integers, Sequences, FiniteSets, TLC

VARIABLES facts, rules, pc, best_action, fired_sorted

vars == <<facts, rules, pc, best_action, fired_sorted>>

\* ------------------------------------------------------------ bounds
\* Longest rule list of the priority/action universe.
MaxRules == 3
\* Longest rule list of the condition universe.
MaxCondRules == 3

\* ------------------------------------------------------------ values
Num(k) == [t |-> "num", n |-> k, s |-> ""]
Whole(k) == Num(k * 100)
Dec(whole, hundredths) == Num(whole * 100 + hundredths)
Str(x) == [t |-> "str", n |-> 0, s |-> x]
Null == [t |-> "null", n |-> 0, s |-> ""]
List1(k) == [t |-> "list", n |-> k * 100, s |-> ""]

\* dict.get(key, default)
Get(d, key, default) == IF key \in DOMAIN d THEN d[key] ELSE default

\* hash(v) succeeds: lists are unhashable.
Hashable(v) == v.t # "list"

\* The strings used as fact or condition values, in Python's str order.
StrOrder == <<"high", "low">>
StrIndex(x) == CHOOSE i \in 1..Len(StrOrder) : StrOrder[i] = x

\* a == b on Python values (never raises).
PyEq(a, b) ==
    /\ a.t = b.t
    /\ a.n = b.n
    /\ a.s = b.s

\* a < b on Python values: "T", "F", or "E" for TypeError.
PyLt(a, b) ==
    IF a.t = "num" /\ b.t = "num" THEN (IF a.n < b.n THEN "T" ELSE "F")
    ELSE IF a.t = "str" /\ b.t = "str"
         THEN (IF StrIndex(a.s) < StrIndex(b.s) THEN "T" ELSE "F")
    ELSE IF a.t = "list" /\ b.t = "list" THEN (IF a.n < b.n THEN "T" ELSE "F")
    ELSE "E"

Bool(b) == IF b THEN "T" ELSE "F"
Not3(r) == IF r = "E" THEN "E" ELSE IF r = "T" THEN "F" ELSE "T"

\* The registered comparison symbols.
OpSymbols == {"==", "!=", ">", ">=", "<", "<="}

\* OPS[op](a, b)
OPS(op, a, b) ==
    CASE op = "==" -> Bool(PyEq(a, b))
      [] op = "!=" -> Bool(~PyEq(a, b))
      [] op = ">"  -> PyLt(b, a)
      [] op = ">=" -> Not3(PyLt(a, b))
      [] op = "<"  -> PyLt(a, b)
      [] op = "<=" -> Not3(PyLt(b, a))

\* ------------------------------------------------------------ conditions
\* A condition is a Python object: a list of values (items), or a non-sequence.
CondList(items) == [t |-> "list", items |-> items]
Cond(field, op, value) == CondList(<<Str(field), Str(op), value>>)
CondNum(k) == [t |-> "num", items |-> <<Whole(k)>>]
CondNull == [t |-> "null", items |-> <<>>]

evaluate_condition(f, cond) ==
    IF cond.t # "list" THEN "E"
    ELSE IF Len(cond.items) # 3 THEN "F"
    ELSE LET field == cond.items[1]
             op == cond.items[2]
             value == cond.items[3]
         IN  IF ~Hashable(field) THEN "E"
             ELSE IF ~(field.t = "str" /\ field.s \in DOMAIN f) THEN "F"
             ELSE IF ~Hashable(op) THEN "E"
             ELSE IF ~(op.t = "str" /\ op.s \in OpSymbols) THEN "F"
             ELSE LET r == OPS(op.s, f[field.s], value)
                  IN  IF r = "E" THEN "F" ELSE r

\* all(evaluate_condition(facts, c) for c in conds[i..]): stops at the first
\* condition that is not true.
RECURSIVE AllFrom(_, _, _)
AllFrom(f, conds, i) ==
    IF i > Len(conds) THEN "T"
    ELSE LET r == evaluate_condition(f, conds[i])
         IN  IF r = "T" THEN AllFrom(f, conds, i + 1) ELSE r

\* Mutant: any() in place of all().
RECURSIVE AnyFrom(_, _, _)
AnyFrom(f, conds, i) ==
    IF i > Len(conds) THEN "F"
    ELSE LET r == evaluate_condition(f, conds[i])
         IN  IF r = "F" THEN AnyFrom(f, conds, i + 1) ELSE r
rule_matches_any(f, rule) == AnyFrom(f, Get(rule, "conditions", <<>>), 1)

\* Mutant: the loop returns after its first condition.
rule_matches_first(f, rule) ==
    LET conds == Get(rule, "conditions", <<>>)
    IN  IF conds = <<>> THEN "T" ELSE evaluate_condition(f, conds[1])

rule_matches(f, rule) == AllFrom(f, Get(rule, "conditions", <<>>), 1)

\* ------------------------------------------------------------ actions
ActionDict(decision, reason) ==
    [t |-> "dict", keys |-> {"decision", "reason"}, decision |-> decision, reason |-> reason]
\* Mutant: the guard's decision in the no-match fallback.
NoMatchAction_review ==
    ActionDict("REVIEW", "No specific rule matched (check rule configurations)")
NoMatchAction ==
    ActionDict("MANUAL REVIEW", "No specific rule matched (check rule configurations)")
GuardAction == ActionDict("REVIEW", "Matching rule has no defined action")
Unset == [t |-> "unset", keys |-> {}, decision |-> "", reason |-> ""]

\* ------------------------------------------------------------ sorting
\* Mutant: a missing priority sorts below zero.
SortKey_negative(r) == Get(r, "priority", -1)
SortKey(r) == Get(r, "priority", 0)

Reverse(s) == [i \in 1..Len(s) |-> s[Len(s) + 1 - i]]

\* Insert r into the ascending sequence s after every element whose key is not
\* greater (a stable insertion).
RECURSIVE InsertAsc(_, _)
InsertAsc(s, r) ==
    IF s = <<>> THEN <<r>>
    ELSE IF SortKey(s[Len(s)]) <= SortKey(r) THEN Append(s, r)
    ELSE Append(InsertAsc(SubSeq(s, 1, Len(s) - 1), r), s[Len(s)])

RECURSIVE StableSortAsc(_)
StableSortAsc(s) ==
    IF s = <<>> THEN <<>>
    ELSE InsertAsc(StableSortAsc(SubSeq(s, 1, Len(s) - 1)), s[Len(s)])

\* Mutant: the result of an ascending sort reversed, which reverses ties too.
SortedThenReversed(s) == Reverse(StableSortAsc(s))
\* Mutant: reverse=True dropped.
SortedAscending(s) == StableSortAsc(s)

\* sorted(s, key=lambda r: r.get("priority", 0), reverse=True): the list is
\* reversed, sorted stably ascending, and reversed again.
SortedByPriorityDesc(s) == Reverse(StableSortAsc(Reverse(s)))

\* ------------------------------------------------------------ run_rules
Fired(f, rs) == SelectSeq(rs, LAMBDA r : rule_matches(f, r) = "T")

Raises(f, rs) == \E i \in 1..Len(rs) : rule_matches(f, rs[i]) = "E"

\* Mutant: the last fired rule's action.
BestAction_last(sorted) == Get(sorted[Len(sorted)], "action", GuardAction)
\* Mutant: the no-match fallback as the default of a missing action.
BestAction_fallback(sorted) == Get(sorted[1], "action", NoMatchAction)
BestAction(sorted) == Get(sorted[1], "action", GuardAction)

run_rules(f, rs) ==
    IF Raises(f, rs)
    THEN [status |-> "raised", best_action |-> Unset, fired_sorted |-> <<>>]
    ELSE IF Fired(f, rs) = <<>>
    THEN [status |-> "done", best_action |-> NoMatchAction, fired_sorted |-> <<>>]
    ELSE LET sorted == SortedByPriorityDesc(Fired(f, rs))
         IN  [status |-> "done", best_action |-> BestAction(sorted), fired_sorted |-> sorted]

\* ------------------------------------------------------------ inputs
Without(d, key) == [k \in DOMAIN d \ {key} |-> d[k]]
SeqsUpTo(S, n) == UNION {[1..k -> S] : k \in 0..n}
EmptyDict == [k \in {} |-> Null]
\* The dicts that extend a dict of ds by key |-> v for a v of vals, or by nothing.
Extend(ds, key, vals) == ds \cup {d @@ (key :> v) : d \in ds, v \in vals}

\* Malformed action values: a JSON string, and a dict without "reason".
StrAction == [t |-> "str", keys |-> {}, decision |-> "", reason |-> ""]
PartialAction == [t |-> "dict", keys |-> {"decision"}, decision |-> "REJECT", reason |-> ""]

\* Priority/action universe: unconditional rules with every combination of a
\* present or missing priority and a well-formed, malformed or missing action,
\* and one conditional rule.
PriorityValues == {-1, 0, 80}
PrioFull ==
    {[name |-> na[1], priority |-> p, conditions |-> <<>>, action |-> na[2]] :
        p \in PriorityValues,
        na \in {<<"A", ActionDict("AWARD FULL", "merit")>>, <<"B", StrAction>>}}
PrioRulePool ==
    PrioFull
    \cup {Without(r, "priority") : r \in PrioFull}
    \cup {Without(r, "action") : r \in PrioFull}
    \cup {Without(Without(r, "action"), "priority") : r \in PrioFull}
    \cup {[name |-> "P", priority |-> 0,
           conditions |-> <<Cond("x", ">=", Whole(2))>>, action |-> PartialAction]}
PrioFacts == {EmptyDict, "x" :> Whole(1), "x" :> Whole(3)}

\* Condition universe: the shapes a "conditions" value takes.
CondLists ==
    { <<>>,
      <<Cond("x", ">=", Whole(2))>>,
      <<Cond("x", ">=", Whole(2)), Cond("y", "==", Whole(2))>>,
      <<Cond("x", ">=", Whole(2)), Cond("y", "!=", Whole(2))>>,
      <<Cond("x", "=>", Whole(2))>>,
      <<CondList(<<Str("x"), Str(">=")>>)>>,
      <<CondList(<<Str("x"), Str(">="), Whole(2), Whole(2)>>)>>,
      <<CondNum(5)>>,
      <<Cond("x", "<", Whole(2)), CondNull>>,
      <<CondList(<<List1(1), Str(">="), Whole(2)>>)>>,
      <<CondList(<<Str("x"), List1(1), Whole(2)>>)>>,
      <<Cond("x", "==", Str("low"))>>,
      <<Cond("x", ">", Str("high"))>>,
      <<Cond("x", "!=", Null)>> }
CondRulePool ==
    {[name |-> "R", priority |-> 10 * Len(cl), conditions |-> cl,
      action |-> ActionDict("REVIEW", "r")] : cl \in CondLists}
    \cup {[name |-> "U", priority |-> 10, action |-> ActionDict("REJECT", "u")]}
CondFacts ==
    Extend(Extend({EmptyDict}, "x", {Whole(1), Whole(3), Str("low")}), "y", {Whole(2), Whole(5)})

\* Facts for the reference rules: values on both sides of every threshold,
\* missing fields, non-numeric values, and both spellings of the score field.
RefFacts ==
    Extend(Extend(Extend(Extend(Extend({EmptyDict},
        "cgpa", {Dec(2, 0), Dec(2, 49), Dec(2, 50), Dec(3, 30), Dec(3, 50),
                 Dec(3, 70), Dec(3, 80), Str("high"), Null}),
        "co_curricular score", {Whole(0), Whole(60), Whole(85)}),
        "co_curricular_score", {Whole(85)}),
        "family_income", {Whole(4000), Whole(5000), Whole(8000), Whole(12000), Whole(20000)}),
        "disciplinary_actions", {Whole(0), Whole(1), Whole(2), Str("low")})

\* The reference rule table.
SCHOLARSHIP_RULES ==
    << [name |-> "Top merit candidate", priority |-> 100,
        conditions |-> << Cond("cgpa", ">=", Dec(3, 70)),
                          Cond("co_curricular score", ">=", Whole(80)),
                          Cond("family_income", "<=", Whole(8000)),
                          Cond("disciplinary_actions", "==", Whole(0)) >>,
        action |-> ActionDict("AWARD FULL",
            "Excellent academic & co-curricular performance, with acceptable need")],
       [name |-> "Low CGPA not eligible", priority |-> 95,
        conditions |-> << Cond("cgpa", "<", Dec(2, 50)) >>,
        action |-> ActionDict("REJECT", "CGPA below minimum scholarship requirement")],
       [name |-> "Serious disciplinary record", priority |-> 90,
        conditions |-> << Cond("disciplinary_actions", ">=", Whole(2)) >>,
        action |-> ActionDict("REJECT", "Too many disciplinary records")],
       [name |-> "Good candidate partial scholarship", priority |-> 80,
        conditions |-> << Cond("cgpa", ">=", Dec(3, 30)),
                          Cond("co_curricular score", ">=", Whole(60)),
                          Cond("family_income", "<=", Whole(12000)),
                          Cond("disciplinary_actions", "<=", Whole(1)) >>,
        action |-> ActionDict("AWARD PARTIAL",
            "Good academic & involvement record with moderate need")],
       [name |-> "Need-based review", priority |-> 70,
        conditions |-> << Cond("cgpa", ">=", Dec(2, 50)),
                          Cond("family_income", "<=", Whole(4000)) >>,
        action |-> ActionDict("REVIEW", "High need but borderline academic score")],
       [name |-> "Default non-qualifier", priority |-> 1,
        conditions |-> << >>,
        action |-> ActionDict("NOT ELIGIBLE",
            "Applicant did not meet the criteria for any defined scholarship or review.")] >>

\* ------------------------------------------------------------ state machine
Run ==
    /\ pc = "idle"
    /\ LET res == run_rules(facts, rules)
       IN  /\ pc' = res.status
           /\ best_action' = res.best_action
           /\ fired_sorted' = res.fired_sorted
    /\ UNCHANGED <<facts, rules>>

Next == Run

Idle ==
    /\ pc = "idle"
    /\ best_action = Unset
    /\ fired_sorted = <<>>

\* Any facts and any rule list of the priority/action universe.
Init ==
    /\ facts \in PrioFacts
    /\ rules \in SeqsUpTo(PrioRulePool, MaxRules)
    /\ Idle

Spec == Init /\ [][Next]_vars

\* Any facts and any rule list of the condition universe.
InitCond ==
    /\ facts \in CondFacts
    /\ rules \in SeqsUpTo(CondRulePool, MaxCondRules)
    /\ Idle

SpecCond == InitCond /\ [][Next]_vars

\* Any facts against the reference rules.
InitRef ==
    /\ facts \in RefFacts
    /\ rules = SCHOLARSHIP_RULES
    /\ Idle

SpecRef == InitRef /\ [][Next]_vars

\* ------------------------------------------------------------ properties
\* Every condition of rule r evaluates true under facts (a conjunction; true
\* of a rule with no conditions).
AllTrue(r) ==
    LET conds == IF "conditions" \in DOMAIN r THEN r.conditions ELSE <<>>
    IN  \A k \in 1..Len(conds) : evaluate_condition(facts, conds[k]) = "T"
\* The rules of the input list that match, in input order.
Matching == SelectSeq(rules, AllTrue)
\* A rule's priority, 0 for a rule without one.
Prio(r) == IF "priority" \in DOMAIN r THEN r.priority ELSE 0
HasPrio(r) == "priority" \in DOMAIN r
Count(seq, r) == Cardinality({i \in 1..Len(seq) : seq[i] = r})
Top == fired_sorted[1]
\* An action is well-formed: a record with a decision and a reason.
WellFormed(a) == a.t = "dict" /\ a.keys = {"decision", "reason"}

\* C1 as stated: when no rule matches, the result is the action
\* {MANUAL_REVIEW, "No specific rule matched"} and an empty fired list.
C1_Original ==
    (pc = "done" /\ Matching = <<>>) =>
        /\ best_action = ActionDict("MANUAL_REVIEW", "No specific rule matched")
        /\ fired_sorted = <<>>

\* C1 amended: when no rule matches, the result is the action {MANUAL REVIEW,
\* "No specific rule matched (check rule configurations)"} and an empty fired
\* list.
C1_NoMatchFallback ==
    (pc = "done" /\ Matching = <<>>) =>
        /\ best_action = ActionDict("MANUAL REVIEW",
               "No specific rule matched (check rule configurations)")
        /\ fired_sorted = <<>>

C1_Witness ==
    /\ pc = "done"
    /\ Len(rules) = 2
    /\ facts # EmptyDict
    /\ \A i \in 1..Len(rules) :
           "conditions" \in DOMAIN rules[i] /\ Len(rules[i].conditions) = 2
    /\ Matching = <<>>
    /\ best_action.decision = "MANUAL REVIEW"

\* C2: the fired list is ordered by priority descending, and the fired rules of
\* each priority are in the order of the input list.
C2_SortedStable ==
    pc = "done" =>
        /\ \A i, j \in 1..Len(fired_sorted) :
               i < j => Prio(fired_sorted[i]) >= Prio(fired_sorted[j])
        /\ \A p \in {Prio(rules[i]) : i \in 1..Len(rules)} :
               SelectSeq(fired_sorted, LAMBDA r : Prio(r) = p)
                   = SelectSeq(Matching, LAMBDA r : Prio(r) = p)

C2_Witness ==
    /\ pc = "done"
    /\ Len(fired_sorted) = 3
    /\ fired_sorted # Matching
    /\ Prio(fired_sorted[1]) = 80
    /\ Prio(fired_sorted[2]) = 80
    /\ fired_sorted[1].name = "B"
    /\ fired_sorted[2].name = "A"
    /\ Prio(fired_sorted[3]) < 80

\* C3: when a rule matches and the first fired rule's action is well-formed,
\* the returned action is that action, and no matching rule of the input has a
\* higher priority than the first fired rule.
C3_WinnerIsTop ==
    (/\ pc = "done"
     /\ Matching # <<>>
     /\ "action" \in DOMAIN Top
     /\ WellFormed(Top.action)) =>
        /\ best_action = Top.action
        /\ \A i \in 1..Len(rules) : AllTrue(rules[i]) => Prio(Top) >= Prio(rules[i])

C3_Witness ==
    /\ pc = "done"
    /\ Len(fired_sorted) = 3
    /\ "action" \in DOMAIN Top
    /\ WellFormed(Top.action)
    /\ best_action = Top.action
    /\ Top # rules[1]
    /\ \E j \in 2..3 : "action" \in DOMAIN fired_sorted[j]
                         /\ fired_sorted[j].action # Top.action
    /\ Prio(Top) > Prio(fired_sorted[3])

\* C4: a rule of the input list is in the fired list iff every one of its
\* conditions evaluates true, as many times as it is in the input list; so a
\* rule with no conditions is always in it.
C4_FiredIffAllTrue ==
    pc = "done" =>
        /\ \A i \in 1..Len(rules) :
               Count(fired_sorted, rules[i])
                   = IF AllTrue(rules[i]) THEN Count(rules, rules[i]) ELSE 0
        /\ Len(fired_sorted) = Cardinality({i \in 1..Len(rules) : AllTrue(rules[i])})
        /\ \A i \in 1..Len(fired_sorted) : Count(rules, fired_sorted[i]) > 0

C4_Witness ==
    /\ pc = "done"
    /\ Len(rules) = 3
    /\ Len(fired_sorted) = 2
    /\ \E j \in 1..2 : "conditions" \notin DOMAIN fired_sorted[j]
    /\ \E j \in 1..2 : /\ "conditions" \in DOMAIN fired_sorted[j]
                       /\ Len(fired_sorted[j].conditions) = 2
    /\ \E i \in 1..3 : /\ "conditions" \in DOMAIN rules[i]
                       /\ Len(rules[i].conditions) = 2
                       /\ evaluate_condition(facts, rules[i].conditions[1]) = "T"
                       /\ evaluate_condition(facts, rules[i].conditions[2]) = "F"

\* A condition evaluate_condition is to answer false for: not a triple, an
\* absent field, an unregistered operator, or a comparison that raises.
C5_Malformed(cond) ==
    \/ cond.t # "list"
    \/ Len(cond.items) # 3
    \/ ~(cond.items[1].t = "str" /\ cond.items[1].s \in DOMAIN facts)
    \/ ~(cond.items[2].t = "str" /\ cond.items[2].s \in OpSymbols)
    \/ OPS(cond.items[2].s, facts[cond.items[1].s], cond.items[3]) = "E"

\* C5 as stated: evaluate_condition returns false for every malformed
\* condition and run_rules never raises because of one.
C5_FailsSafe ==
    /\ pc # "raised"
    /\ pc = "done" =>
           \A i \in 1..Len(rules) :
               "conditions" \in DOMAIN rules[i] =>
                   \A k \in 1..Len(rules[i].conditions) :
                       C5_Malformed(rules[i].conditions[k]) =>
                           evaluate_condition(facts, rules[i].conditions[k]) = "F"

\* C6 as stated: a first fired rule whose action is missing or malformed gives
\* the guard action.
C6_Original ==
    (/\ pc = "done"
     /\ fired_sorted # <<>>
     /\ ("action" \notin DOMAIN Top \/ ~WellFormed(Top.action))) =>
        best_action = ActionDict("REVIEW", "Matching rule has no defined action")

\* C6 amended: a first fired rule without an action key gives the guard action
\* {REVIEW, "Matching rule has no defined action"}; an action that is present
\* but malformed is returned as it is.
C6_MissingActionGuard ==
    (pc = "done" /\ fired_sorted # <<>>) =>
        /\ "action" \notin DOMAIN Top =>
               best_action = ActionDict("REVIEW", "Matching rule has no defined action")
        /\ ("action" \in DOMAIN Top /\ ~WellFormed(Top.action)) =>
               best_action = Top.action

C6_Witness ==
    /\ pc = "done"
    /\ Len(fired_sorted) = 3
    /\ "action" \notin DOMAIN Top
    /\ "action" \in DOMAIN fired_sorted[2]
    /\ WellFormed(fired_sorted[2].action)
    /\ best_action.decision = "REVIEW"

\* The facts of C7, with the score field spelled as the claim spells it and as
\* the rule table spells it.
C7_Facts(score_field) ==
    ("cgpa" :> Dec(3, 80)) @@ (score_field :> Whole(85))
        @@ ("family_income" :> Whole(5000)) @@ ("disciplinary_actions" :> Whole(0))

\* C7 as stated: the facts with co_curricular_score give AWARD FULL by
\* "Top merit candidate".
C7_Original ==
    (pc = "done" /\ facts = C7_Facts("co_curricular_score")) =>
        /\ best_action.decision = "AWARD FULL"
        /\ Top.name = "Top merit candidate"

\* C7 amended: the same facts with the score under the key the rule table
\* reads, "co_curricular score", give AWARD FULL by "Top merit candidate"
\* (priority 100).
C7_TopMerit ==
    (pc = "done" /\ facts = C7_Facts("co_curricular score")) =>
        /\ best_action.decision = "AWARD FULL"
        /\ Top.name = "Top merit candidate"
        /\ Top.priority = 100

C7_Witness ==
    /\ pc = "done"
    /\ facts = C7_Facts("co_curricular score")
    /\ Len(fired_sorted) = 3
    /\ best_action.decision = "AWARD FULL"

\* C8: under the reference rules, facts with a numeric cgpa below 2.5 give
\* REJECT with "Low CGPA not eligible" (priority 95) first.
C8_LowCgpaRejects ==
    (/\ pc # "idle"
     /\ "cgpa" \in DOMAIN facts
     /\ facts["cgpa"].t = "num"
     /\ facts["cgpa"].n < 250) =>
        /\ pc = "done"
        /\ best_action.decision = "REJECT"
        /\ Top.name = "Low CGPA not eligible"
        /\ Top.priority = 95

C8_Witness ==
    /\ pc = "done"
    /\ "cgpa" \in DOMAIN facts
    /\ facts["cgpa"] = Dec(2, 0)
    /\ Len(fired_sorted) = 3
    /\ fired_sorted[2].name = "Serious disciplinary record"
    /\ best_action.decision = "REJECT"

\* C9: under the reference rules, every facts mapping gives a non-empty fired
\* list that ends with "Default non-qualifier" (priority 1), never the
\* no-match fallback.
C9_DefaultAlwaysFires ==
    pc # "idle" =>
        /\ pc = "done"
        /\ fired_sorted # <<>>
        /\ fired_sorted[Len(fired_sorted)].name = "Default non-qualifier"
        /\ fired_sorted[Len(fired_sorted)].priority = 1
        /\ best_action.decision # "MANUAL REVIEW"

C9_Witness ==
    /\ pc = "done"
    /\ facts = EmptyDict
    /\ Len(fired_sorted) = 1
    /\ best_action.decision = "NOT ELIGIBLE"

\* C10: a fired rule without a priority key is ordered as priority 0: after
\* every fired rule of positive priority, before every one of negative
\* priority, in input order among the rules of priority 0 or none, and first
\* only when no fired rule has a positive priority.
C10_MissingPriorityIsZero ==
    pc = "done" =>
        /\ \A j \in 1..Len(fired_sorted) :
               ~HasPrio(fired_sorted[j]) =>
                   /\ \A k \in 1..Len(fired_sorted) :
                          HasPrio(fired_sorted[k]) =>
                              /\ fired_sorted[k].priority > 0 => k < j
                              /\ fired_sorted[k].priority < 0 => k > j
                   /\ j = 1 => \A i \in 1..Len(rules) :
                                  (AllTrue(rules[i]) /\ HasPrio(rules[i]))
                                      => rules[i].priority <= 0
        /\ SelectSeq(fired_sorted, LAMBDA r : ~HasPrio(r) \/ r.priority = 0)
               = SelectSeq(Matching, LAMBDA r : ~HasPrio(r) \/ r.priority = 0)

C10_Witness ==
    /\ pc = "done"
    /\ Len(fired_sorted) = 3
    /\ ~HasPrio(rules[1])
    /\ ~HasPrio(fired_sorted[2])
    /\ HasPrio(fired_sorted[1])
    /\ fired_sorted[1].priority > 0
    /\ HasPrio(fired_sorted[3])
    /\ fired_sorted[3].priority < 0

====
